---------------------------- MODULE Spec2Model ----------------------------
(***************************************************************************)
(* Model of api/cases.js: an Express service with three routes in front of *)
(* one Google Sheets spreadsheet.                                          *)
(*   GET  /api/cases     read tab 'BD', locate the header row, project the *)
(*                       rows below it into records                        *)
(*   PUT  /api/cases     clear 'BD' from row 4 down, then write the        *)
(*                       serialized records at row 4                       *)
(*   POST /api/location  append one row to tab 'Ubicaciones'               *)
(*                                                                         *)
(* A JavaScript string is a sequence of one-character strings.  A          *)
(* JavaScript value is a record [t, s, n]: t is its type tag, s its text   *)
(* when it is a string, n its number when it is a number.  An object is a  *)
(* function from its keys (strings) to values.                             *)
(***************************************************************************)
EXTENDS Integers, Sequences, FiniteSets, TLC

VARIABLES
    bd,        \* tab 'BD' as the service stores it: rows of cells (strings)
    ubic,      \* tab 'Ubicaciones': the rows appended so far
    pc,        \* pc[r]: where the handler of request r stands
    kind,      \* kind[r]: "GET", "PUT", "POST" once request r has arrived
    body,      \* body[r]: the parsed JSON body of request r
    values,    \* values[r]: the rows the handler of r computed for its write
    seen,      \* seen[r]: what response.data.values was for the GET request r
    resp,      \* resp[r]: the response sent for request r
    issued,    \* issued[r]: the remote calls the handler of r issued, in order
    served     \* the remote calls answered so far, in order: who called, which
               \* call, and the error text of a failed call (<<>>: it succeeded)

vars == <<bd, ubic, pc, kind, body, values, seen, resp, issued, served>>

----------------------------------------------------------------------------
(* Bounds of the model *)

\* Requests handled in one run of the server model.
NReq == 2
\* Filler rows that may precede the rows of interest of a grid.
MaxPad == 10
\* Rows of interest of a grid (headers and data rows), after the filler.
MaxBody == 3

----------------------------------------------------------------------------
(* Program constants *)

\* Math.min(rows.length, 10): the scan window of the header search.
ScanLimit == 10
\* const dataStartRow = 4
dataStartRow == 4

SHEET_NAME == "BD"
sheetName == "Ubicaciones"

----------------------------------------------------------------------------
(* JavaScript values *)

Str(s) == [t |-> "string", s |-> s, n |-> 0]
Num(n) == [t |-> "number", s |-> <<>>, n |-> n]
Null == [t |-> "null", s |-> <<>>, n |-> 0]
Undefined == [t |-> "undefined", s |-> <<>>, n |-> 0]

\* ToBoolean: undefined, null, "" and 0 are falsy.
Truthy(v) ==
    CASE v.t = "string" -> v.s # <<>>
      [] v.t = "number" -> v.n # 0
      [] OTHER -> FALSE

\* a || b
OrElse(a, b) == IF Truthy(a) THEN a ELSE b

\* obj[key] of a plain object: undefined when the key is not set.
GetProp(obj, key) == IF key \in DOMAIN obj THEN obj[key] ELSE Undefined

\* obj[key] = v
SetProp(obj, key, v) ==
    [k \in DOMAIN obj \cup {key} |-> IF k = key THEN v ELSE obj[k]]

EmptyObject == [k \in {} |-> Undefined]

\* What JSON.stringify / JSON.parse leave of an object: a property whose
\* value is undefined is dropped.
JsonObject(obj) == [k \in {x \in DOMAIN obj : obj[x].t # "undefined"} |-> obj[k]]

WhiteSpace == {" ", "\t"}

RECURSIVE TrimStart(_)
TrimStart(s) ==
    IF s = <<>> THEN s
    ELSE IF Head(s) \in WhiteSpace THEN TrimStart(Tail(s)) ELSE s

RECURSIVE TrimEnd(_)
TrimEnd(s) ==
    IF s = <<>> THEN s
    ELSE IF s[Len(s)] \in WhiteSpace THEN TrimEnd(SubSeq(s, 1, Len(s) - 1)) ELSE s

\* String.prototype.trim
Trim(s) == TrimEnd(TrimStart(s))

\* Array.prototype.includes on an array of strings
Includes(row, s) == \E i \in 1..Len(row) : row[i] = s

Min(a, b) == IF a < b THEN a ELSE b
Max(a, b) == IF a > b THEN a ELSE b

----------------------------------------------------------------------------
(* Strings of the program *)

EXPEDIENTE == <<"E", "X", "P", "E", "D", "I", "E", "N", "T", "E">>
NOMBRES == <<"N", "O", "M", "B", "R", "E", "S">>
RUT == <<"R", "U", "T">>
rowIndexKey == <<"r", "o", "w", "I", "n", "d", "e", "x">>
NA == <<"N", "/", "A">>

----------------------------------------------------------------------------
(* GET /api/cases: header search and projection *)

\* Variant: the three tests joined by || instead of &&.
IsHeaderRowAny(row) ==
    Includes(row, EXPEDIENTE) \/ Includes(row, NOMBRES) \/ Includes(row, RUT)

\* row && row.includes('EXPEDIENTE') && row.includes('NOMBRES') && row.includes('RUT')
IsHeaderRow(row) ==
    Includes(row, EXPEDIENTE) /\ Includes(row, NOMBRES) /\ Includes(row, RUT)

\* Variant: the loop runs over every row, i < rows.length.
RECURSIVE ScanFromUnbounded(_, _)
ScanFromUnbounded(rows, i) ==
    IF i >= Len(rows) THEN -1
    ELSE IF Includes(rows[i + 1], EXPEDIENTE) /\ Includes(rows[i + 1], NOMBRES)
            /\ Includes(rows[i + 1], RUT) THEN i
    ELSE ScanFromUnbounded(rows, i + 1)

\* for (let i = 0; i < Math.min(rows.length, 10); i++) ... break
\* i is the 0-based index of the code; -1 when the loop ends without a hit.
RECURSIVE ScanFrom(_, _)
ScanFrom(rows, i) ==
    IF i >= Min(Len(rows), ScanLimit) THEN -1
    ELSE IF IsHeaderRow(rows[i + 1]) THEN i
    ELSE ScanFrom(rows, i + 1)

headerRowIndex(rows) == ScanFrom(rows, 0)

\* Variant: String(h) without the trim.
HeaderListRaw(row) == [i \in 1..Len(row) |-> row[i]]

\* rows[headerRowIndex].map(h => h ? String(h).trim() : '')
HeaderList(row) == [i \in 1..Len(row) |-> IF row[i] # <<>> THEN Trim(row[i]) ELSE <<>>]

\* headers.forEach((header, i) => { caseObject[header] = row[i]; })
\* from the (1-based) column i on
RECURSIVE AssignColumns(_, _, _, _)
AssignColumns(obj, headers, row, i) ==
    IF i > Len(headers) THEN obj
    ELSE AssignColumns(
            SetProp(obj, headers[i], IF i <= Len(row) THEN Str(row[i]) ELSE Undefined),
            headers, row, i + 1)

\* Variant: rowIndex = dataStartIndex + index, the 0-based position.
CaseObjectZeroBased(headers, row, dataStartIndex, index) ==
    SetProp(AssignColumns(EmptyObject, headers, row, 1),
            rowIndexKey, Num(dataStartIndex + index))

\* the callback of rows.slice(dataStartIndex).map((row, index) => ...)
CaseObject(headers, row, dataStartIndex, index) ==
    SetProp(AssignColumns(EmptyObject, headers, row, 1),
            rowIndexKey, Num(dataStartIndex + index + 1))

\* rows.slice(dataStartIndex).map(...), dataStartIndex = headerRowIndex + 1
CasesData(rows, headers, h) ==
    [n \in 1..(Len(rows) - (h + 1)) |->
        CaseObject(headers, rows[h + 1 + n], h + 1, n - 1)]


\* res.json({ headers, cases }) as the client parses it
Table(headers, cases) ==
    [status |-> 200, table |-> TRUE, headers |-> headers,
     cases |-> [n \in 1..Len(cases) |-> JsonObject(cases[n])],
     message |-> "", arg |-> <<>>, error |-> <<>>]

\* res.status(code).json({ message }) and res.status(500).json({ message, error })
Reply(code, message, arg, error) ==
    [status |-> code, table |-> FALSE, headers |-> <<>>, cases |-> <<>>,
     message |-> message, arg |-> arg, error |-> error]

NoReply == Reply(0, "", <<>>, <<>>)

\* The handler of GET /api/cases from `let rows = response.data.values` on.
\* data.present is FALSE when the read returned no `values` at all.
GetReply(data) ==
    LET rows == data.rows
        h == headerRowIndex(rows)
    IN  IF ~data.present \/ Len(rows) = 0 THEN Table(<<>>, <<>>)
        ELSE IF h = -1 THEN Table(<<>>, <<>>)
        ELSE Table(HeaderList(rows[h + 1]),
                   CasesData(rows, HeaderList(rows[h + 1]), h))

----------------------------------------------------------------------------
(* PUT /api/cases: validation and serialization *)

\* Variant: !headers && !cases.
PutRejectedBoth(b) == ~b.hasHeaders /\ ~b.hasCases

\* !headers || !cases.  An array, even an empty one, is truthy; a body
\* field is falsy here only when it is absent.
PutRejected(b) == ~b.hasHeaders \/ ~b.hasCases

\* Variant: caso[header] || ''.
SerializeBlank(headers, cases) ==
    [n \in 1..Len(cases) |->
        [i \in 1..Len(headers) |-> OrElse(GetProp(cases[n], headers[i]), Str(<<>>))]]

\* cases.map(caso => headers.map(header => caso[header] || null))
Serialize(headers, cases) ==
    [n \in 1..Len(cases) |->
        [i \in 1..Len(headers) |-> OrElse(GetProp(cases[n], headers[i]), Null)]]

----------------------------------------------------------------------------
(* POST /api/location: validation and payload *)

\* !address || !location || !location.lat || !location.lon
PostRejected(b) ==
    \/ ~Truthy(b.address)
    \/ ~b.hasLocation
    \/ ~Truthy(b.lat)
    \/ ~Truthy(b.lon)

\* [[ new Date().toISOString(), address, location.lat, location.lon, caseId || 'N/A' ]]
LocationRow(b, now) ==
    <<Str(now), b.address, b.lat, b.lon, OrElse(b.caseId, Str(NA))>>

\* address.split(',')[0]
RECURSIVE FirstSegment(_)
FirstSegment(s) ==
    IF s = <<>> \/ Head(s) = "," THEN <<>>
    ELSE <<Head(s)>> \o FirstSegment(Tail(s))

\* The message of the 500 response of POST /api/location.  An upstream
\* error text is a sequence of words; includes() looks for one word.
LocationErrorMessage(e) ==
    IF Includes(e, "PERMISSION_DENIED")
        THEN "Permiso denegado. Verifica que el email del servicio tenga acceso al Sheet."
    ELSE IF Includes(e, "SHEET_NOT_FOUND")
        THEN "No se encontro la hoja Ubicaciones. Crea una hoja con ese nombre."
    ELSE "Error al guardar la ubicacion en Google Sheets."

----------------------------------------------------------------------------
(* The spreadsheet service, as the four calls of the handlers use it *)

RowAt(grid, i) == IF i <= Len(grid) THEN grid[i] ELSE <<>>
CellAt(grid, i, j) == IF j <= Len(RowAt(grid, i)) THEN RowAt(grid, i)[j] ELSE <<>>

RECURSIVE DropTrailingEmpty(_)
DropTrailingEmpty(s) ==
    IF s = <<>> THEN s
    ELSE IF s[Len(s)] = <<>> THEN DropTrailingEmpty(SubSeq(s, 1, Len(s) - 1)) ELSE s

\* values.get on `BD!A:ZZ`: trailing empty cells of a row and trailing empty
\* rows are left out; no `values` field at all when nothing is left.
ReadValues(grid) ==
    LET rows == DropTrailingEmpty([i \in 1..Len(grid) |-> DropTrailingEmpty(grid[i])])
    IN  [present |-> rows # <<>>, rows |-> rows]

\* values.clear on `BD!A4:ZZ`: every row from `from` down is emptied.
ClearFrom(grid, from) == SubSeq(grid, 1, Min(Len(grid), from - 1))

RECURSIVE Decimal(_)
Decimal(n) ==
    LET d == <<"0", "1", "2", "3", "4", "5", "6", "7", "8", "9">>[(n % 10) + 1]
    IN  IF n < 10 THEN <<d>> ELSE Decimal(n \div 10) \o <<d>>

\* valueInputOption USER_ENTERED: what a cell holds (as text) after a value
\* is written to it; a null leaves the cell as it was.
UserEntered(v, old) ==
    CASE v.t = "string" -> v.s
      [] v.t = "number" -> Decimal(v.n)
      [] OTHER -> old

\* values.update on `BD!A4` with resource { values }: the rectangle of
\* `rows` is written with its top left corner on column A of row `from`.
WriteAt(grid, from, rows) ==
    [i \in 1..Max(Len(grid), from - 1 + Len(rows)) |->
        IF i < from \/ i > from - 1 + Len(rows) THEN RowAt(grid, i)
        ELSE LET new == rows[i - from + 1]
             IN  [j \in 1..Max(Len(RowAt(grid, i)), Len(new)) |->
                    IF j <= Len(new) THEN UserEntered(new[j], CellAt(grid, i, j))
                    ELSE CellAt(grid, i, j)]]

Call(r, op, e) == [req |-> r, op |-> op, error |-> e]
Ok == <<>>

----------------------------------------------------------------------------
(* Inputs *)

Req == 1..NReq

\* req.body after express.json(): one record shape for the three routes.
PutBody(hasHeaders, headers, hasCases, cases) ==
    [hasHeaders |-> hasHeaders, headers |-> headers,
     hasCases |-> hasCases, cases |-> cases,
     address |-> Undefined, hasLocation |-> FALSE,
     lat |-> Undefined, lon |-> Undefined, caseId |-> Undefined]

PostBody(address, hasLocation, lat, lon, caseId) ==
    [hasHeaders |-> FALSE, headers |-> <<>>, hasCases |-> FALSE, cases |-> <<>>,
     address |-> address, hasLocation |-> hasLocation,
     lat |-> lat, lon |-> lon, caseId |-> caseId]

NoBody == PutBody(FALSE, <<>>, FALSE, <<>>)

StdHeaders == <<EXPEDIENTE, NOMBRES, RUT>>

Case1 == (EXPEDIENTE :> Str(<<"1">>)) @@ (NOMBRES :> Str(<<"a">>)) @@ (RUT :> Str(<<"r">>))
Case2 == (EXPEDIENTE :> Str(<<"2">>)) @@ (rowIndexKey :> Num(5))
Case3 == (EXPEDIENTE :> Str(<<"3">>)) @@ (NOMBRES :> Str(<<>>)) @@ (RUT :> Str(<<"s">>))

\* Bodies a client sends to PUT /api/cases.
PutBodies ==
    { NoBody,
      PutBody(TRUE, StdHeaders, FALSE, <<>>),
      PutBody(FALSE, <<>>, TRUE, <<Case1>>),
      PutBody(TRUE, StdHeaders, TRUE, <<>>),
      PutBody(TRUE, StdHeaders, TRUE, <<Case1, Case2>>),
      PutBody(TRUE, StdHeaders, TRUE, <<Case3>>) }

Address == <<"1", " ", "M", "a", "i", "n", ",", " ", "C">>

\* Bodies a client sends to POST /api/location.
PostBodies ==
    { NoBody,
      PostBody(Str(Address), FALSE, Undefined, Undefined, Undefined),
      PostBody(Str(Address), TRUE, Undefined, Num(2), Undefined),
      PostBody(Str(Address), TRUE, Num(1), Undefined, Str(<<"7">>)),
      PostBody(Undefined, TRUE, Num(1), Num(2), Undefined),
      PostBody(Str(Address), TRUE, Num(1), Num(2), Undefined),
      PostBody(Str(Address), TRUE, Num(1), Num(2), Str(<<"7">>)) }

\* What new Date().toISOString() returns.
Clock == { <<"2", "0", "2", "5">> }

\* error.message of a failed remote call.
UpstreamErrors == { <<"quota">>, <<"403", "PERMISSION_DENIED">> }

\* Rows of a sheet.
CleanHeader == <<EXPEDIENTE, NOMBRES, RUT>>
DupHeader == <<<<" ", "x">>, EXPEDIENTE, NOMBRES, RUT, <<"x">>>>
NearHeader == <<EXPEDIENTE, NOMBRES, <<" ", "R", "U", "T">>>>
KeyHeader == <<rowIndexKey, RUT, NOMBRES, EXPEDIENTE>>
GapRow == <<<<"a">>, <<>>, <<"b">>>>
EmptyRow == <<>>
FillerRow == <<EXPEDIENTE, NOMBRES>>

RowKinds == {CleanHeader, DupHeader, NearHeader, KeyHeader, GapRow, EmptyRow}

RECURSIVE SeqsUpTo(_, _)
SeqsUpTo(S, n) ==
    IF n = 0 THEN {<<>>}
    ELSE LET shorter == SeqsUpTo(S, n - 1)
         IN  shorter \cup {Append(q, x) : q \in {y \in shorter : Len(y) = n - 1}, x \in S}

\* The grids of the header search: up to MaxPad filler rows, then up to
\* MaxBody rows of any kind.
Grids ==
    {[i \in 1..p |-> FillerRow] \o b : p \in 0..MaxPad, b \in SeqsUpTo(RowKinds, MaxBody)}

\* The sheets of the server model: empty; laid out as the write path
\* expects (header on row 3, data from row 4); header on row 1.
ServerSheets ==
    { <<>>,
      <<<<<<"t">>>>, <<>>, CleanHeader, <<<<"1">>, <<"a">>, <<"r">>, <<>>>>, <<<<"2">>>>, <<>>>>,
      <<CleanHeader, <<<<"1">>, <<"a">>, <<"r">>>>>> }

----------------------------------------------------------------------------
(* The server *)

NoData == [present |-> FALSE, rows |-> <<>>]

InitRequests ==
    /\ ubic = <<>>
    /\ pc = [r \in Req |-> "new"]
    /\ kind = [r \in Req |-> "none"]
    /\ body = [r \in Req |-> NoBody]
    /\ values = [r \in Req |-> <<>>]
    /\ seen = [r \in Req |-> NoData]
    /\ resp = [r \in Req |-> NoReply]
    /\ issued = [r \in Req |-> <<>>]
    /\ served = <<>>

Init == bd \in ServerSheets /\ InitRequests

\* Requests are numbered in their order of arrival.
Arrives(r, k, b) ==
    /\ pc[r] = "new"
    /\ \A q \in Req : q < r => pc[q] # "new"
    /\ kind' = [kind EXCEPT ![r] = k]
    /\ body' = [body EXCEPT ![r] = b]

\* The handler sends its response and ends.
Responds(r, reply) ==
    /\ resp' = [resp EXCEPT ![r] = reply]
    /\ pc' = [pc EXCEPT ![r] = "done"]

\* The handler issues a remote call and awaits it.
Issues(r, op) ==
    /\ issued' = [issued EXCEPT ![r] = Append(@, op)]
    /\ pc' = [pc EXCEPT ![r] = op]

\* GET /api/cases up to `await sheets.spreadsheets.values.get(...)`
GetStart(r) ==
    /\ Arrives(r, "GET", NoBody)
    /\ Issues(r, "get")
    /\ UNCHANGED <<bd, ubic, values, seen, resp, served>>

\* the read succeeds: the rest of the try block
GetOk(r) ==
    /\ pc[r] = "get"
    /\ served' = Append(served, Call(r, "get", Ok))
    /\ seen' = [seen EXCEPT ![r] = ReadValues(bd)]
    /\ Responds(r, GetReply(ReadValues(bd)))
    /\ UNCHANGED <<bd, ubic, kind, body, values, issued>>

\* the read fails: the catch block
GetFail(r, e) ==
    /\ pc[r] = "get"
    /\ served' = Append(served, Call(r, "get", e))
    /\ Responds(r, Reply(500, "Error al conectar con Google Sheets.", <<>>, e))
    /\ UNCHANGED <<bd, ubic, kind, body, values, seen, issued>>

\* PUT /api/cases up to `await sheets.spreadsheets.values.clear(...)`
PutStart(r, b) ==
    /\ Arrives(r, "PUT", b)
    /\ IF PutRejected(b)
       THEN /\ Responds(r, Reply(400, "Faltan headers o cases en la peticion.", <<>>, <<>>))
            /\ UNCHANGED <<values, issued>>
       ELSE /\ values' = [values EXCEPT ![r] = Serialize(b.headers, b.cases)]
            /\ Issues(r, "clear")
            /\ UNCHANGED resp
    /\ UNCHANGED <<bd, ubic, seen, served>>

\* Variant: the update is issued without the test of values.length.
ClearOkAlwaysUpdate(r) ==
    /\ pc[r] = "clear"
    /\ bd' = ClearFrom(bd, dataStartRow)
    /\ served' = Append(served, Call(r, "clear", Ok))
    /\ Issues(r, "update") /\ UNCHANGED resp
    /\ UNCHANGED <<ubic, kind, body, values, seen>>

\* Variant: the cleared range starts below the first row, `BD!A2:ZZ`.
ClearOkFromRow2(r) ==
    /\ pc[r] = "clear"
    /\ bd' = ClearFrom(bd, 2)
    /\ served' = Append(served, Call(r, "clear", Ok))
    /\ IF Len(values[r]) > 0
       THEN Issues(r, "update") /\ UNCHANGED resp
       ELSE /\ Responds(r, Reply(200, "Hoja de calculo actualizada con exito.", <<>>, <<>>))
            /\ UNCHANGED issued
    /\ UNCHANGED <<ubic, kind, body, values, seen>>

\* the clear succeeds: up to `await sheets.spreadsheets.values.update(...)`,
\* or to the response when there is nothing to write
ClearOk(r) ==
    /\ pc[r] = "clear"
    /\ bd' = ClearFrom(bd, dataStartRow)
    /\ served' = Append(served, Call(r, "clear", Ok))
    /\ IF Len(values[r]) > 0
       THEN Issues(r, "update") /\ UNCHANGED resp
       ELSE /\ Responds(r, Reply(200, "Hoja de calculo actualizada con exito.", <<>>, <<>>))
            /\ UNCHANGED issued
    /\ UNCHANGED <<ubic, kind, body, values, seen>>

\* the update succeeds
UpdateOk(r) ==
    /\ pc[r] = "update"
    /\ bd' = WriteAt(bd, dataStartRow, values[r])
    /\ served' = Append(served, Call(r, "update", Ok))
    /\ Responds(r, Reply(200, "Hoja de calculo actualizada con exito.", <<>>, <<>>))
    /\ UNCHANGED <<ubic, kind, body, values, seen, issued>>

\* Variant: the 500 response carries no error text.
PutFailSilent(r, e) ==
    /\ pc[r] \in {"clear", "update"}
    /\ served' = Append(served, Call(r, pc[r], e))
    /\ Responds(r, Reply(500, "Error al escribir en Google Sheets.", <<>>, <<>>))
    /\ UNCHANGED <<bd, ubic, kind, body, values, seen, issued>>

\* the clear or the update fails: the catch block
PutFail(r, e) ==
    /\ pc[r] \in {"clear", "update"}
    /\ served' = Append(served, Call(r, pc[r], e))
    /\ Responds(r, Reply(500, "Error al escribir en Google Sheets.", <<>>, e))
    /\ UNCHANGED <<bd, ubic, kind, body, values, seen, issued>>

\* POST /api/location up to `await sheets.spreadsheets.values.append(...)`
PostStart(r, b, now) ==
    /\ Arrives(r, "POST", b)
    /\ IF PostRejected(b)
       THEN /\ Responds(r, Reply(400, "Datos de ubicacion incompletos.", <<>>, <<>>))
            /\ UNCHANGED <<values, issued>>
       ELSE /\ values' = [values EXCEPT ![r] = <<LocationRow(b, now)>>]
            /\ Issues(r, "append")
            /\ UNCHANGED resp
    /\ UNCHANGED <<bd, ubic, seen, served>>

\* the append succeeds
AppendOk(r) ==
    /\ pc[r] = "append"
    /\ ubic' = ubic \o values[r]
    /\ served' = Append(served, Call(r, "append", Ok))
    /\ Responds(r, Reply(200, "Ubicacion guardada correctamente.",
                         FirstSegment(body[r].address.s), <<>>))
    /\ UNCHANGED <<bd, kind, body, values, seen, issued>>

\* the append fails: the catch block
AppendFail(r, e) ==
    /\ pc[r] = "append"
    /\ served' = Append(served, Call(r, "append", e))
    /\ Responds(r, Reply(500, LocationErrorMessage(e), <<>>, e))
    /\ UNCHANGED <<bd, ubic, kind, body, values, seen, issued>>

\* A client sends back the table a GET answered with (same headers, same
\* order, the records as received).
PutBack(r) ==
    \E q \in Req :
        /\ resp[q].table
        /\ PutStart(r, PutBody(TRUE, resp[q].headers, TRUE, resp[q].cases))

Next ==
    \E r \in Req :
        \/ GetStart(r)
        \/ GetOk(r)
        \/ \E e \in UpstreamErrors : GetFail(r, e)
        \/ \E b \in PutBodies : PutStart(r, b)
        \/ PutBack(r)
        \/ ClearOk(r)
        \/ UpdateOk(r)
        \/ \E e \in UpstreamErrors : PutFail(r, e)
        \/ \E b \in PostBodies, now \in Clock : PostStart(r, b, now)
        \/ AppendOk(r)
        \/ \E e \in UpstreamErrors : AppendFail(r, e)

Spec == Init /\ [][Next]_vars

\* The header search and the round trip on their own: one client that
\* reads the table and writes it back, one request after the other, every
\* remote call succeeding.
InitGrid == bd \in Grids /\ InitRequests

Quiet == \A q \in Req : pc[q] \in {"new", "done"}

NextGrid ==
    \E r \in Req :
        \/ Quiet /\ GetStart(r)
        \/ GetOk(r)
        \/ Quiet /\ PutBack(r)
        \/ ClearOk(r)
        \/ UpdateOk(r)

SpecGrid == InitGrid /\ [][NextGrid]_vars

----------------------------------------------------------------------------
(* Vocabulary of the properties *)

\* The read of GET request r succeeded and its handler has answered.
GetDone(r) ==
    /\ kind[r] = "GET" /\ pc[r] = "done"
    /\ \E k \in 1..Len(served) : served[k] = Call(r, "get", Ok)

HasMarkers(row) ==
    \A m \in {EXPEDIENTE, NOMBRES, RUT} : \E j \in 1..Len(row) : row[j] = m

\* 0-based indices, within the first 10 rows, of the rows with the three markers
Candidates(rows) == {i \in 0..9 : i < Len(rows) /\ HasMarkers(rows[i + 1])}

Least(S) == CHOOSE x \in S : \A y \in S : x <= y

EmptyTable(reply) ==
    reply.status = 200 /\ reply.table /\ reply.headers = <<>> /\ reply.cases = <<>>

NoEdgeSpace(s) == s = <<>> \/ (s[1] \notin {" ", "\t"} /\ s[Len(s)] \notin {" ", "\t"})

----------------------------------------------------------------------------
(* Properties of GET /api/cases, checked under SpecGrid *)

\* C1: the header row chosen is the lowest-index row, among the first 10
\* rows of the grid, that holds 'EXPEDIENTE', 'NOMBRES' and 'RUT' as exact
\* cell values; when no such row lies within the first 10 rows (even if one
\* lies at index 10 or later) no header row is found.
C1_EarliestHeaderInWindow ==
    \A r \in Req : GetDone(r) =>
        LET rows == seen[r].rows
            c == Candidates(rows)
        IN  IF c = {}
            THEN headerRowIndex(rows) = -1 /\ resp[r].headers = <<>>
            ELSE /\ headerRowIndex(rows) = Least(c)
                 /\ Len(resp[r].headers) = Len(rows[Least(c) + 1])
                 /\ Len(resp[r].cases) = Len(rows) - Least(c) - 1

\* A grid whose rows 9 and 10 (0-based) both hold the markers: row 9, the
\* last of the window, is the header, and one record is returned.
C1_Witness ==
    \E r \in Req :
        /\ GetDone(r)
        /\ Len(seen[r].rows) = 11
        /\ Candidates(seen[r].rows) = {9}
        /\ HasMarkers(seen[r].rows[11])
        /\ Len(resp[r].cases) = 1

\* C2: when the read succeeds and the grid is absent, empty, or has no row
\* with the three markers among its first 10 rows, the response is 200 with
\* {headers: [], cases: []}.
C2_NotFoundIsEmpty200 ==
    \A r \in Req :
        (GetDone(r) /\ (~seen[r].present \/ Candidates(seen[r].rows) = {}))
            => EmptyTable(resp[r])

\* A grid whose only row with the markers is at index 10 answers 200, empty.
C2_Witness ==
    \E r \in Req :
        /\ GetDone(r)
        /\ seen[r].present
        /\ Len(seen[r].rows) > 10
        /\ HasMarkers(seen[r].rows[11])
        /\ Candidates(seen[r].rows) = {}
        /\ EmptyTable(resp[r])

\* The column of row the record keeps under the header of column i: the
\* last column with that header wins, and rowIndex is the synthetic field.
Kept(headers, i) ==
    /\ headers[i] # rowIndexKey
    /\ \A j \in (i + 1)..Len(headers) : headers[j] # headers[i]

\* C3: when the header row is found at index h, one record is produced for
\* every row after it, in grid order, and the n-th record (0-based) has
\* rowIndex = h + n + 2.
C3_OneRecordPerRow ==
    \A r \in Req : (GetDone(r) /\ Candidates(seen[r].rows) # {}) =>
        LET rows == seen[r].rows
            h == Least(Candidates(rows))
            hs == resp[r].headers
            cs == resp[r].cases
        IN  /\ Len(cs) = Len(rows) - (h + 1)
            /\ \A n \in 0..(Len(cs) - 1) :
                LET rec == cs[n + 1]
                    row == rows[h + 2 + n]
                IN  /\ rowIndexKey \in DOMAIN rec
                    /\ rec[rowIndexKey] = Num(h + n + 2)
                    /\ \A i \in 1..Len(hs) : Kept(hs, i) =>
                        IF i <= Len(row)
                        THEN hs[i] \in DOMAIN rec /\ rec[hs[i]] = Str(row[i])
                        ELSE hs[i] \notin DOMAIN rec

\* Header below the top of the sheet, an empty row and a row with cells
\* below it: two records, the first one of unset fields only.
C3_Witness ==
    \E r \in Req :
        /\ GetDone(r)
        /\ Candidates(seen[r].rows) # {}
        /\ Least(Candidates(seen[r].rows)) >= 1
        /\ Len(resp[r].cases) = 2
        /\ DOMAIN resp[r].cases[1] = {rowIndexKey}
        /\ DOMAIN resp[r].cases[2] # {rowIndexKey}

\* s is raw with the white space at its two ends taken off.
TrimOf(s, raw) ==
    /\ NoEdgeSpace(s)
    /\ \E k \in 0..(Len(raw) - Len(s)) :
        /\ SubSeq(raw, k + 1, k + Len(s)) = s
        /\ \A j \in 1..Len(raw) : (j <= k \/ j > k + Len(s)) => raw[j] \in {" ", "\t"}

HeaderSet(reply) == {reply.headers[i] : i \in 1..Len(reply.headers)}

SendsBack(r, q) ==
    /\ q < r
    /\ GetDone(q) /\ Candidates(seen[q].rows) # {}
    /\ kind[r] = "PUT" /\ pc[r] # "new"
    /\ body[r] = PutBody(TRUE, resp[q].headers, TRUE, resp[q].cases)

\* C5 as stated: projecting the rows below the header into records and
\* serializing the records with the same header list gives one row per data
\* row, as wide as the header list, with every non-empty cell in its column
\* and null where the row has no value.
C5_RoundTrip ==
    \A r, q \in Req : SendsBack(r, q) =>
        LET rows == seen[q].rows
            h == Least(Candidates(rows))
            hs == resp[q].headers
        IN  /\ Len(values[r]) = Len(rows) - (h + 1)
            /\ \A n \in 1..Len(values[r]) :
                LET row == rows[h + 1 + n]
                    out == values[r][n]
                IN  /\ Len(out) = Len(hs)
                    /\ \A j \in 1..Len(row) :
                        row[j] # <<>> => (j <= Len(out) /\ out[j] = Str(row[j]))
                    /\ \A j \in 1..Len(out) :
                        (j > Len(row) \/ row[j] = <<>>) => out[j] = Null

----------------------------------------------------------------------------
(* Properties of the three routes, checked under Spec *)

LacksPutField(b) == ~b.hasHeaders \/ ~b.hasCases

LacksPostField(b) ==
    \/ b.address.t = "undefined"
    \/ ~b.hasLocation
    \/ b.lat.t = "undefined"
    \/ b.lon.t = "undefined"

NoCallOf(r) == issued[r] = <<>> /\ \A k \in 1..Len(served) : served[k].req # r

\* C6: a PUT /api/cases whose body lacks headers or cases, and a POST
\* /api/location whose body lacks address, location, lat or lon, is answered
\* 400 and no remote call is issued for it.
C6_MalformedInputStopsAt400 ==
    \A r \in Req :
        (\/ kind[r] = "PUT" /\ LacksPutField(body[r])
         \/ kind[r] = "POST" /\ LacksPostField(body[r]))
            => pc[r] = "done" /\ resp[r].status = 400 /\ NoCallOf(r)

\* A PUT with body {} and a POST without lat, both answered 400.
C6_Witness ==
    \E r, q \in Req :
        /\ kind[r] = "PUT" /\ ~body[r].hasHeaders /\ ~body[r].hasCases
        /\ kind[q] = "POST" /\ body[q].hasLocation /\ body[q].lat.t = "undefined"
        /\ body[q].lon.t = "number" /\ body[q].address.t = "string"
        /\ resp[r].status = 400 /\ resp[q].status = 400

CallsAllowed(k) ==
    CASE k = "GET" -> {<<"get">>}
      [] k = "PUT" -> {<<>>, <<"clear">>, <<"clear", "update">>}
      [] k = "POST" -> {<<>>, <<"append">>}
      [] OTHER -> {<<>>}

\* C7: when a remote call of a request fails, the request is answered 500
\* with the upstream error text in the error field, the failed call is the
\* last call issued for the request and the last one answered for it; every
\* request issues at most one get, or one clear then one update, or one append.
C7_FailureIs500NoRetry ==
    /\ \A r \in Req : issued[r] \in CallsAllowed(kind[r])
    /\ \A k \in 1..Len(served) : served[k].error # Ok =>
        LET r == served[k].req
        IN  /\ pc[r] = "done"
            /\ resp[r].status = 500
            /\ resp[r].error = served[k].error
            /\ issued[r][Len(issued[r])] = served[k].op
            /\ \A k2 \in 1..Len(served) : k2 > k => served[k2].req # r

\* A PUT whose update failed after its clear, and a GET whose read failed
\* with another error text.
C7_Witness ==
    \E r, q \in Req, e, f \in UpstreamErrors :
        /\ e # f
        /\ kind[r] = "PUT" /\ kind[q] = "GET"
        /\ \E k \in 1..Len(served) : served[k] = Call(r, "update", e)
        /\ \E k \in 1..Len(served) : served[k] = Call(q, "get", f)
        /\ resp[r].error = e /\ resp[q].error = f

DataRegionEmpty ==
    \A i \in 1..Len(bd) : i >= 4 => \A j \in 1..Len(bd[i]) : bd[i][j] = <<>>

\* C8: the update of a PUT is issued only after the clear of the same
\* request succeeded and only when there is a row to write; a failed update
\* gets the 500 response a failed clear gets; after it, unless another
\* request's update was carried out since the clear, the sheet is empty from
\* row 4 down (the previous contents are not restored).
C8_UpdateAfterClearNoRollback ==
    \A r \in Req :
        /\ Includes(issued[r], "update") =>
            /\ Len(values[r]) > 0
            /\ \E k \in 1..Len(served) :
                /\ served[k] = Call(r, "clear", Ok)
                /\ \A k2 \in 1..Len(served) :
                    (served[k2].req = r /\ served[k2].op = "update") => k2 > k
        /\ \A k \in 1..Len(served) :
            (served[k].req = r /\ served[k].op \in {"clear", "update"} /\ served[k].error # Ok)
                => resp[r] = Reply(500, "Error al escribir en Google Sheets.", <<>>, served[k].error)
        /\ \A k, k2 \in 1..Len(served) :
            (/\ served[k] = Call(r, "clear", Ok)
             /\ served[k2].req = r /\ served[k2].op = "update" /\ served[k2].error # Ok
             /\ \A k3 \in (k + 1)..Len(served) :
                    ~(served[k3].op = "update" /\ served[k3].error = Ok))
                => DataRegionEmpty

\* The sheet with data below its header on row 3: a PUT cleared it, its
\* update failed, rows 1 to 3 are all that is left.
C8_Witness ==
    \E r \in Req, e \in UpstreamErrors :
        /\ \E k \in 1..Len(served) : served[k] = Call(r, "clear", Ok)
        /\ \E k \in 1..Len(served) : served[k] = Call(r, "update", e)
        /\ resp[r].status = 500
        /\ Len(bd) = 3 /\ bd[3] = CleanHeader

\* PUT request r was answered 200.
PutDone(r) == kind[r] = "PUT" /\ pc[r] = "done" /\ resp[r].status = 200

\* The requests whose clear or update the service carried out.
Writers ==
    {served[k].req : k \in {x \in 1..Len(served) :
        served[x].op \in {"clear", "update"} /\ served[x].error = Ok}}

\* Where the service carried out the call op of request r (0: nowhere).
Place(r, op) ==
    IF \E k \in 1..Len(served) : served[k] = Call(r, op, Ok)
    THEN CHOOSE k \in 1..Len(served) : served[k] = Call(r, op, Ok)
    ELSE 0

LastWrite(r) == Max(Place(r, "clear"), Place(r, "update"))

\* The field that request r sends for column j of its n-th record.
Field(r, n, j) ==
    IF n \in 1..Len(body[r].cases) /\ j \in 1..Len(body[r].headers)
          /\ body[r].headers[j] \in DOMAIN body[r].cases[n]
    THEN body[r].cases[n][body[r].headers[j]]
    ELSE Undefined

HasValue(v) == (v.t = "string" /\ v.s # <<>>) \/ (v.t = "number" /\ v.n # 0)

Text(v) == IF v.t = "number" THEN Decimal(v.n) ELSE v.s

\* The cell of sheet row i, column j in the rows of request r: its n-th
\* record lies on row 3 + n; a field without a value is an empty cell.
CellOf(r, i, j) == IF HasValue(Field(r, i - 3, j)) THEN Text(Field(r, i - 3, j)) ELSE <<>>

\* The cells of the data region that can hold anything after the writes of r and q.
RegionRows(r, q) == 4..Max(Len(bd), 3 + Max(Len(body[r].cases), Len(body[q].cases)))
RegionCols(r, q, i) == 1..Max(Len(RowAt(bd, i)), Max(Len(body[r].headers), Len(body[q].headers)))

\* Two PUT requests, both answered 200, the only writers; last is the one
\* whose write the service carried out last.
TwoPuts(last, other) ==
    /\ last # other
    /\ PutDone(last) /\ PutDone(other)
    /\ Writers = {last, other}
    /\ LastWrite(last) > LastWrite(other)

\* C9 as stated: after two PUT requests have completed, the data region
\* holds the rows of the request whose write was carried out last.
C9_LastWriterRows ==
    \A last, other \in Req : TwoPuts(last, other) =>
        \A i \in RegionRows(last, other) : \A j \in RegionCols(last, other, i) :
            CellAt(bd, i, j) = CellOf(last, i, j)

\* C9, amended: each request's clear is carried out before its own update;
\* after two PUT requests have completed, the data region holds the rows of
\* the request whose write was carried out last, unless the other request's
\* update was carried out after the last request's clear: then each cell
\* that the last request gives no value keeps the other request's cell.
C9_LastWritePerCell ==
    /\ \A r \in Req : Place(r, "update") # 0 =>
          (Place(r, "clear") # 0 /\ Place(r, "clear") < Place(r, "update"))
    /\ \A last, other \in Req : TwoPuts(last, other) =>
        \A i \in RegionRows(last, other) : \A j \in RegionCols(last, other, i) :
            CellAt(bd, i, j) =
                IF Place(other, "update") > Place(last, "clear")
                      /\ ~HasValue(Field(last, i - 3, j))
                THEN CellOf(other, i, j)
                ELSE CellOf(last, i, j)

\* Both clears, then both updates: the region is not the last request's rows.
C9_Witness ==
    \E last, other \in Req :
        /\ TwoPuts(last, other)
        /\ Place(last, "clear") < Place(other, "update")
        /\ Place(other, "clear") < Place(last, "update")
        /\ \E i \in RegionRows(last, other) : \E j \in RegionCols(last, other, i) :
            CellAt(bd, i, j) # CellOf(last, i, j)

\* The request that takes the step, if it is of kind k.
Steps(r, k) == kind'[r] = k /\ pc'[r] # pc[r]

\* C10: GET /api/cases issues only its read and changes neither tab; PUT
\* /api/cases changes no cell of rows 1 to 3 of 'BD' and nothing of
\* 'Ubicaciones'; POST /api/location leaves 'BD' as it is and at most adds
\* one row at the end of 'Ubicaciones'.
C10_Frame ==
    [][ /\ \A i \in 1..3 : \A j \in 1..Max(Len(RowAt(bd, i)), Len(RowAt(bd', i))) :
            CellAt(bd', i, j) = CellAt(bd, i, j)
        /\ \A r \in Req :
            /\ issued'[r] \in CallsAllowed(kind'[r])
            /\ Steps(r, "GET") => (bd' = bd /\ ubic' = ubic)
            /\ Steps(r, "PUT") => ubic' = ubic
            /\ Steps(r, "POST") =>
                /\ bd' = bd
                /\ \/ ubic' = ubic
                   \/ Len(ubic') = Len(ubic) + 1 /\ SubSeq(ubic', 1, Len(ubic)) = ubic
      ]_vars

\* A GET found the header on row 1; the PUT that sent its table back wrote
\* it on row 4, the header and the old data row still above it.
C10_Witness ==
    \E q, r \in Req :
        /\ GetDone(q) /\ Candidates(seen[q].rows) = {0}
        /\ PutDone(r) /\ Place(r, "update") # 0
        /\ Len(bd) = 4
        /\ bd[1] = CleanHeader /\ bd[2] # <<>> /\ bd[4] # <<>>

=============================================================================
